---- MODULE Spec2Model ----
(***************************************************************************)
(* Model of gen_plots.py: a straight-line script that loads five columns  *)
(* of a CSV file into parallel lists, renders three charts with           *)
(* matplotlib, saves each to a fixed path and prints a confirmation.      *)
(* The program counter pc is the source line about to execute.            *)
(***************************************************************************)
EXTENDS Integers, Sequences, FiniteSets, TLC

VARIABLES
    pc,         \* source line about to execute (or the line that raised)
    status,     \* "running", "exit0" (script ran to the end), "exit1" (uncaught exception)
    exc,        \* name of the uncaught exception, "" when none
    fileExists, \* whether open() of the input CSV succeeds
    header,     \* column names of the CSV header row (DictReader.fieldnames)
    rows,       \* data rows of the CSV: each maps a column name to its cell
    idx,        \* number of data rows the reader has yielded so far
    data,       \* the dict of five lists built by the load loop
    figs,       \* pyplot's registry of open figures; the last one is fig/ax
    disk,       \* contents of the three output paths
    stdout      \* lines printed so far

vars == <<pc, status, exc, fileExists, header, rows, idx, data, figs, disk, stdout>>

(***************************************************************************)
(* Bounds of the model.                                                    *)
(***************************************************************************)
MaxRows == 2

(***************************************************************************)
(* Fixed names of the script.                                              *)
(***************************************************************************)
Columns == <<"threshold", "precision", "recall", "f1", "fpr">>

ColumnSet == {Columns[i] : i \in 1..Len(Columns)}

PathPR == "/workspaces/GENUX-FORGE/sensitivity-plot-pr.png"

PathThreshold == "/workspaces/GENUX-FORGE/sensitivity-plot-threshold.png"

PathROC == "/workspaces/GENUX-FORGE/sensitivity-plot-roc.png"

Paths == <<PathPR, PathThreshold, PathROC>>

PathSet == {PathPR, PathThreshold, PathROC}

(***************************************************************************)
(* float(): Python's conversion of a CSV cell to a float.  A cell is       *)
(* either None (a short row: DictReader fills the missing trailing fields  *)
(* with None) or a string, kept as its sequence of characters.  The model  *)
(* covers unsigned decimal literals with optional surrounding blanks; the  *)
(* value is the decimal m * 10^-e with trailing fraction zeros removed, so *)
(* "1" and "1.0" convert to the same float.                                *)
(***************************************************************************)
DigitChars == {"0", "1", "2", "3", "4", "5", "6", "7", "8", "9"}

DigitVal(ch) ==
    CASE ch = "0" -> 0 [] ch = "1" -> 1 [] ch = "2" -> 2 [] ch = "3" -> 3
      [] ch = "4" -> 4 [] ch = "5" -> 5 [] ch = "6" -> 6 [] ch = "7" -> 7
      [] ch = "8" -> 8 [] ch = "9" -> 9

\* s without its leading and trailing blanks
Strip(s) ==
    LET keep == {i \in 1..Len(s) : s[i] # " "}
    IN  IF keep = {}
        THEN <<>>
        ELSE SubSeq(s, CHOOSE i \in keep : \A j \in keep : i <= j,
                       CHOOSE i \in keep : \A j \in keep : i >= j)

\* the number written by the first n characters of the digit string s
RECURSIVE DigitsValue(_, _)
DigitsValue(s, n) ==
    IF n = 0 THEN 0 ELSE 10 * DigitsValue(s, n - 1) + DigitVal(s[n])

IsDecimal(s) ==
    /\ \A i \in 1..Len(s) : s[i] \in DigitChars \cup {"."}
    /\ Cardinality({i \in 1..Len(s) : s[i] = "."}) <= 1
    /\ \E i \in 1..Len(s) : s[i] \in DigitChars

RECURSIVE Normalize(_, _)
Normalize(m, e) ==
    IF e > 0 /\ m % 10 = 0 THEN Normalize(m \div 10, e - 1) ELSE [m |-> m, e |-> e]

DecimalValue(s) ==
    LET dots == {i \in 1..Len(s) : s[i] = "."}
        p    == IF dots = {} THEN Len(s) + 1 ELSE CHOOSE i \in dots : TRUE
        ip   == SubSeq(s, 1, p - 1)
        fp   == SubSeq(s, p + 1, Len(s))
    IN  Normalize(DigitsValue(ip \o fp, Len(ip) + Len(fp)), Len(fp))

NoValue == [m |-> 0, e |-> 0]

float(cell) ==
    IF cell.none
    THEN [err |-> "TypeError", val |-> NoValue]
    ELSE LET s == Strip(cell.s)
         IN  IF IsDecimal(s)
             THEN [err |-> "", val |-> DecimalValue(s)]
             ELSE [err |-> "ValueError", val |-> NoValue]

(***************************************************************************)
(* Input files the model considers.                                        *)
(***************************************************************************)
Str(s) == [none |-> FALSE, s |-> s]

None == [none |-> TRUE, s |-> <<>>]

BaseCell == Str(<<"0", ".", "5">>)

BaseRow == [c \in ColumnSet |-> BaseCell]

\* a row equal to BaseRow except for cell `cell` in the column at position k
RowWith(k, cell) == [BaseRow EXCEPT ![Columns[k]] = cell]

\* a short row: the fields from position k on are absent
ShortRow(k) == [c \in ColumnSet |->
                  IF \E j \in k..Len(Columns) : Columns[j] = c THEN None ELSE BaseCell]

GoodRows ==
    {BaseRow} \cup {RowWith(k, Str(<<" ", "1", ".", "0">>)) : k \in 1..Len(Columns)}

BadRows ==
    {RowWith(k, Str(<<"a", "b", "c">>)) : k \in 1..Len(Columns)}
      \cup {RowWith(k, Str(<<>>)) : k \in 1..Len(Columns)}
      \cup {ShortRow(k) : k \in 1..Len(Columns)}

RowSet == GoodRows \cup BadRows

SeqsUpTo(S, n) == UNION {[1..k -> S] : k \in 0..n}

Absent == [kind |-> "absent"]

Stale == [kind |-> "stale"]

EmptyData == [c \in ColumnSet |-> <<>>]

\* float() tabulated over the cells that occur in the input files considered
Cells == {r[c] : r \in RowSet, c \in ColumnSet}

FloatOf == [cell \in Cells |-> float(cell)]

(***************************************************************************)
(* The render part of the script, one instruction per source line.         *)
(***************************************************************************)
\* the lines of the render part that hold a statement
Lines == (18..26) \cup (29..40) \cup (43..51) \cup {53}

Code(l) ==
    CASE l = 18 -> [op |-> "subplots", figsize |-> <<8, 6>>]
      [] l = 19 -> [op |-> "plot", x |-> "recall", y |-> "precision", fmt |-> "o-",
                 label |-> "Precision-Recall",
                 kw |-> {<<"linewidth", "2">>, <<"markersize", "6">>}]
      [] l = 20 -> [op |-> "set_xlabel", text |-> "Recall"]
      [] l = 21 -> [op |-> "set_ylabel", text |-> "Precision"]
      [] l = 22 -> [op |-> "set_title", text |-> "GenUX Drift Detection: Precision-Recall Curve"]
      [] l = 23 -> [op |-> "grid", alpha |-> "0.3"]
      [] l = 24 -> [op |-> "legend"]
      [] l = 25 -> [op |-> "savefig", path |-> PathPR, dpi |-> 100, bbox |-> "tight"]
      [] l = 26 -> [op |-> "print", text |-> "Saved: /workspaces/GENUX-FORGE/sensitivity-plot-pr.png"]
      [] l = 29 -> [op |-> "subplots", figsize |-> <<10, 6>>]
      [] l = 30 -> [op |-> "plot", x |-> "threshold", y |-> "precision", fmt |-> "o-",
                 label |-> "Precision", kw |-> {<<"linewidth", "2">>}]
      [] l = 31 -> [op |-> "plot", x |-> "threshold", y |-> "recall", fmt |-> "s-",
                 label |-> "Recall", kw |-> {<<"linewidth", "2">>}]
      [] l = 32 -> [op |-> "plot", x |-> "threshold", y |-> "f1", fmt |-> "^-",
                 label |-> "F1", kw |-> {<<"linewidth", "2">>}]
      [] l = 33 -> [op |-> "axhline", y |-> 0,
                 kw |-> {<<"color", "k">>, <<"linestyle", "-">>, <<"alpha", "0.1">>}]
      [] l = 34 -> [op |-> "set_xlabel", text |-> "Threshold"]
      [] l = 35 -> [op |-> "set_ylabel", text |-> "Score"]
      [] l = 36 -> [op |-> "set_title", text |-> "GenUX Drift Detection: Performance vs Threshold"]
      [] l = 37 -> [op |-> "legend"]
      [] l = 38 -> [op |-> "grid", alpha |-> "0.3"]
      [] l = 39 -> [op |-> "savefig", path |-> PathThreshold, dpi |-> 100, bbox |-> "tight"]
      [] l = 40 -> [op |-> "print",
                 text |-> "Saved: /workspaces/GENUX-FORGE/sensitivity-plot-threshold.png"]
      [] l = 43 -> [op |-> "subplots", figsize |-> <<8, 6>>]
      [] l = 44 -> [op |-> "plot", x |-> "fpr", y |-> "recall", fmt |-> "o-",
                 label |-> "ROC (approx)",
                 kw |-> {<<"linewidth", "2">>, <<"markersize", "6">>, <<"color", "red">>}]
      [] l = 45 -> [op |-> "set_xlabel", text |-> "False Positive Rate (FPR)"]
      [] l = 46 -> [op |-> "set_ylabel", text |-> "True Positive Rate (Recall)"]
      [] l = 47 -> [op |-> "set_title", text |-> "GenUX Drift Detection: FPR vs TPR"]
      [] l = 48 -> [op |-> "grid", alpha |-> "0.3"]
      [] l = 49 -> [op |-> "legend"]
      [] l = 50 -> [op |-> "savefig", path |-> PathROC, dpi |-> 100, bbox |-> "tight"]
      [] l = 51 -> [op |-> "print", text |-> "Saved: /workspaces/GENUX-FORGE/sensitivity-plot-roc.png"]
      [] l = 53 -> [op |-> "close_all"]

\* variant of ColumnAt: line 12 reads the recall cell into the precision list
ColumnAtSwapped(l) ==
    CASE l = 11 -> [list |-> "threshold", field |-> "threshold"]
      [] l = 12 -> [list |-> "precision", field |-> "recall"]
      [] l = 13 -> [list |-> "recall", field |-> "recall"]
      [] l = 14 -> [list |-> "f1", field |-> "f1"]
      [] l = 15 -> [list |-> "fpr", field |-> "fpr"]

\* the list each line of the load loop's body appends to and the field of the
\* row it converts
ColumnAt(l) ==
    CASE l = 11 -> [list |-> "threshold", field |-> "threshold"]
      [] l = 12 -> [list |-> "precision", field |-> "precision"]
      [] l = 13 -> [list |-> "recall", field |-> "recall"]
      [] l = 14 -> [list |-> "f1", field |-> "f1"]
      [] l = 15 -> [list |-> "fpr", field |-> "fpr"]

\* the lines of the load loop's body
LoadLines == 11..15

Min(S) == CHOOSE m \in S : \A n \in S : m <= n

Max(S) == CHOOSE m \in S : \A n \in S : m >= n

\* the statement that follows line l in straight-line execution
NextPc(l) == Min({m \in Lines : m > l})

\* the instruction at the current line, if it is a line of the render part
AtOp(name) == status = "running" /\ pc \in Lines /\ Code(pc).op = name

\* variant of Raise: the exception is swallowed and the script exits with 0
RaiseSwallowed(e) == status' = "exit0" /\ exc' = e /\ pc' = pc

\* an uncaught exception: the interpreter prints the traceback and exits with 1
Raise(e) == status' = "exit1" /\ exc' = e /\ pc' = pc

Goto(l) == pc' = l /\ UNCHANGED <<status, exc>>

\* the figure and axes that the names fig and ax are bound to
Cur == figs[Len(figs)]

SetCur(ax) == [figs EXCEPT ![Len(figs)] = ax]

(***************************************************************************)
(* Initial state: line 7 has built the dict of empty lists; the input file *)
(* is either missing, or holds a header and up to MaxRows data rows; the   *)
(* output paths hold what an earlier run of the script has left.           *)
(***************************************************************************)
Inputs ==
    {[exists |-> FALSE, header |-> {}, rows |-> <<>>]}
      \cup {[exists |-> TRUE, header |-> ColumnSet, rows |-> r] : r \in SeqsUpTo(RowSet, MaxRows)}
      \cup {[exists |-> TRUE, header |-> ColumnSet \ {c}, rows |-> r] :
              c \in ColumnSet, r \in SeqsUpTo({BaseRow}, MaxRows)}

\* what an earlier run that completed its first j jobs has left at the paths
InitialDisks ==
    {[p \in PathSet |-> IF \E k \in 1..j : Paths[k] = p THEN Stale ELSE Absent] :
       j \in 0..Len(Paths)}

Init ==
    /\ pc = 8
    /\ status = "running"
    /\ exc = ""
    /\ \E in \in Inputs :
         /\ fileExists = in.exists
         /\ header = in.header
         /\ rows = in.rows
    /\ idx = 0
    /\ data = EmptyData
    /\ figs = <<>>
    /\ disk \in InitialDisks
    /\ stdout = <<>>

(***************************************************************************)
(* Load: lines 8-15.                                                       *)
(***************************************************************************)
\* variant of Open: a missing file is treated as an empty one
OpenIgnoringMissing ==
    /\ status = "running" /\ pc = 8
    /\ Goto(10)
    /\ UNCHANGED <<fileExists, header, rows, idx, data, figs, disk, stdout>>

\* lines 8-9: open the file and wrap it in a DictReader
Open ==
    /\ status = "running" /\ pc = 8
    /\ IF fileExists THEN Goto(10) ELSE Raise("FileNotFoundError")
    /\ UNCHANGED <<fileExists, header, rows, idx, data, figs, disk, stdout>>

\* variant of ForRow: the loop is left after its first iteration
ForRowEarlyExit ==
    /\ status = "running" /\ pc = 10
    /\ IF idx < Len(rows) /\ idx < 1
       THEN idx' = idx + 1 /\ Goto(Min(LoadLines))
       ELSE idx' = idx /\ Goto(Min(Lines))
    /\ UNCHANGED <<fileExists, header, rows, data, figs, disk, stdout>>

\* line 10: the reader yields the next row, or the loop and the with-block end
ForRow ==
    /\ status = "running" /\ pc = 10
    /\ IF idx < Len(rows)
       THEN idx' = idx + 1 /\ Goto(Min(LoadLines))
       ELSE idx' = idx /\ Goto(Min(Lines))
    /\ UNCHANGED <<fileExists, header, rows, data, figs, disk, stdout>>

\* variant of AppendField: a cell that does not convert ends the row, not the load
AppendFieldSkipBad ==
    /\ status = "running" /\ pc \in LoadLines
    /\ LET c == ColumnAt(pc)
       IN  IF c.field \notin header \/ FloatOf[rows[idx][c.field]].err # ""
           THEN Goto(10) /\ data' = data
           ELSE /\ data' = [data EXCEPT ![c.list] = Append(@, FloatOf[rows[idx][c.field]].val)]
                /\ Goto(IF pc = Max(LoadLines) THEN 10 ELSE pc + 1)
    /\ UNCHANGED <<fileExists, header, rows, idx, figs, disk, stdout>>

\* lines 11-15: data[list].append(float(row[field]))
AppendField ==
    /\ status = "running" /\ pc \in LoadLines
    /\ LET c == ColumnAt(pc)
       IN  IF c.field \notin header
           THEN Raise("KeyError") /\ data' = data
           ELSE LET r == FloatOf[rows[idx][c.field]]
                IN  IF r.err # ""
                    THEN Raise(r.err) /\ data' = data
                    ELSE /\ data' = [data EXCEPT ![c.list] = Append(@, r.val)]
                         /\ Goto(IF pc = Max(LoadLines) THEN 10 ELSE pc + 1)
    /\ UNCHANGED <<fileExists, header, rows, idx, figs, disk, stdout>>

(***************************************************************************)
(* Render: lines 18-53.                                                    *)
(***************************************************************************)
NewAxes(figsize) ==
    [figsize |-> figsize, series |-> <<>>, hlines |-> <<>>, xlabel |-> "",
     ylabel |-> "", title |-> "", grid |-> "", legend |-> <<>>]

\* fig, ax = plt.subplots(1, 1, figsize=...): a new current figure
Subplots ==
    /\ AtOp("subplots")
    /\ figs' = Append(figs, NewAxes(Code(pc).figsize))
    /\ Goto(NextPc(pc))
    /\ UNCHANGED <<fileExists, header, rows, idx, data, disk, stdout>>

\* variant of Plot: the two positional arguments are passed in the other order
PlotSwappedAxes ==
    /\ AtOp("plot")
    /\ LET i == Code(pc)
           x == data[i.y]
           y == data[i.x]
       IN  IF Len(x) # Len(y)
           THEN Raise("ValueError") /\ figs' = figs
           ELSE /\ figs' = SetCur([Cur EXCEPT !.series =
                      Append(@, [x |-> x, y |-> y, fmt |-> i.fmt, label |-> i.label,
                                 kw |-> i.kw])])
                /\ Goto(NextPc(pc))
    /\ UNCHANGED <<fileExists, header, rows, idx, data, disk, stdout>>

\* variant of Plot: the plotted y list is emptied after it is drawn
PlotConsuming ==
    /\ AtOp("plot")
    /\ LET i == Code(pc)
           x == data[i.x]
           y == data[i.y]
       IN  IF Len(x) # Len(y)
           THEN Raise("ValueError") /\ figs' = figs /\ data' = data
           ELSE /\ figs' = SetCur([Cur EXCEPT !.series =
                      Append(@, [x |-> x, y |-> y, fmt |-> i.fmt, label |-> i.label,
                                 kw |-> i.kw])])
                /\ data' = [data EXCEPT ![i.y] = <<>>]
                /\ Goto(NextPc(pc))
    /\ UNCHANGED <<fileExists, header, rows, idx, disk, stdout>>

\* ax.plot(x, y, fmt, label=..., ...): the axes copies x and y into a new line;
\* x and y of different lengths raise ValueError
Plot ==
    /\ AtOp("plot")
    /\ LET i == Code(pc)
           x == data[i.x]
           y == data[i.y]
       IN  IF Len(x) # Len(y)
           THEN Raise("ValueError") /\ figs' = figs
           ELSE /\ figs' = SetCur([Cur EXCEPT !.series =
                      Append(@, [x |-> x, y |-> y, fmt |-> i.fmt, label |-> i.label,
                                 kw |-> i.kw])])
                /\ Goto(NextPc(pc))
    /\ UNCHANGED <<fileExists, header, rows, idx, data, disk, stdout>>

\* ax.axhline(y=0, ...)
AxHLine ==
    /\ AtOp("axhline")
    /\ figs' = SetCur([Cur EXCEPT !.hlines = Append(@, [y |-> Code(pc).y, kw |-> Code(pc).kw])])
    /\ Goto(NextPc(pc))
    /\ UNCHANGED <<fileExists, header, rows, idx, data, disk, stdout>>

\* ax.set_xlabel / ax.set_ylabel / ax.set_title
SetLabel ==
    /\ \/ AtOp("set_xlabel") /\ figs' = SetCur([Cur EXCEPT !.xlabel = Code(pc).text])
       \/ AtOp("set_ylabel") /\ figs' = SetCur([Cur EXCEPT !.ylabel = Code(pc).text])
       \/ AtOp("set_title") /\ figs' = SetCur([Cur EXCEPT !.title = Code(pc).text])
    /\ Goto(NextPc(pc))
    /\ UNCHANGED <<fileExists, header, rows, idx, data, disk, stdout>>

\* ax.grid(True, alpha=0.3)
Grid ==
    /\ AtOp("grid")
    /\ figs' = SetCur([Cur EXCEPT !.grid = Code(pc).alpha])
    /\ Goto(NextPc(pc))
    /\ UNCHANGED <<fileExists, header, rows, idx, data, disk, stdout>>

\* ax.legend(): one entry per labelled line the axes holds at the call
Legend ==
    /\ AtOp("legend")
    /\ figs' = SetCur([Cur EXCEPT !.legend =
                         [k \in 1..Len(Cur.series) |-> Cur.series[k].label]])
    /\ Goto(NextPc(pc))
    /\ UNCHANGED <<fileExists, header, rows, idx, data, disk, stdout>>

Png(i, ax) == [kind |-> "png", dpi |-> i.dpi, bbox |-> i.bbox, ax |-> ax]

Partial == [kind |-> "partial"]

\* variant of SaveFig: a failed write is ignored and the script goes on
SaveFigSwallow ==
    /\ AtOp("savefig")
    /\ LET i == Code(pc)
       IN  \/ disk' = [disk EXCEPT ![i.path] = Png(i, Cur)]
           \/ disk' = disk
           \/ disk' = [disk EXCEPT ![i.path] = Partial]
    /\ Goto(NextPc(pc))
    /\ UNCHANGED <<fileExists, header, rows, idx, data, figs, stdout>>

\* variant of SaveFig: a failed write is attempted again
SaveFigRetry ==
    /\ AtOp("savefig")
    /\ LET i == Code(pc)
       IN  \/ disk' = [disk EXCEPT ![i.path] = Png(i, Cur)] /\ Goto(NextPc(pc))
           \/ disk' = [disk EXCEPT ![i.path] = Partial] /\ Goto(pc)
    /\ UNCHANGED <<fileExists, header, rows, idx, data, figs, stdout>>

\* fig.savefig(path, dpi=100, bbox_inches='tight'): the write succeeds, or it
\* raises OSError with the path untouched (directory missing or not writable)
\* or holding a truncated file (failure in mid-write)
SaveFig ==
    /\ AtOp("savefig")
    /\ LET i == Code(pc)
       IN  \/ disk' = [disk EXCEPT ![i.path] = Png(i, Cur)] /\ Goto(NextPc(pc))
           \/ disk' = disk /\ Raise("OSError")
           \/ disk' = [disk EXCEPT ![i.path] = Partial] /\ Raise("OSError")
    /\ UNCHANGED <<fileExists, header, rows, idx, data, figs, stdout>>

\* print('Saved: ...')
PrintSaved ==
    /\ AtOp("print")
    /\ stdout' = Append(stdout, Code(pc).text)
    /\ Goto(NextPc(pc))
    /\ UNCHANGED <<fileExists, header, rows, idx, data, figs, disk>>

\* line 53: plt.close('all') empties pyplot's figure registry; it is the last
\* statement, so the script then ends with exit code 0
CloseAll ==
    /\ AtOp("close_all")
    /\ figs' = <<>>
    /\ status' = "exit0"
    /\ UNCHANGED <<pc, exc, fileExists, header, rows, idx, data, disk, stdout>>

Next ==
    \/ Open
    \/ ForRow
    \/ AppendField
    \/ Subplots
    \/ Plot
    \/ AxHLine
    \/ SetLabel
    \/ Grid
    \/ Legend
    \/ SaveFig
    \/ PrintSaved
    \/ CloseAll

Spec == Init /\ [][Next]_vars

\* the interpreter runs the script to its end: a statement that can execute does
FairSpec == Spec /\ WF_vars(Next)

(***************************************************************************)
(* Vocabulary of the properties.                                           *)
(***************************************************************************)
\* the load loop has been left: control is in the render part
LoadDone == pc \in Lines

\* the render job (1 = PR, 2 = threshold, 3 = ROC) that each line belongs to
JobOfLine ==
    [l \in Lines |-> Cardinality({m \in Lines : m <= l /\ Code(m).op = "subplots"})]

JobOf(l) == JobOfLine[l]

\* the line of each job's savefig
SaveLineOf ==
    [k \in 1..Len(Paths) |->
       CHOOSE l \in Lines : Code(l).op = "savefig" /\ JobOfLine[l] = k]

SaveLine(k) == SaveLineOf[k]

Written(k) == disk[Paths[k]].kind = "png"

Untouched(p) == disk[p].kind \in {"absent", "stale"}

ParseErrors == {"KeyError", "ValueError", "TypeError"}

\* row i cannot be loaded: a required column is not in the header, or a cell
\* of a required column does not convert
BadRow(i) == \E c \in ColumnSet : c \notin header \/ FloatOf[rows[i][c]].err # ""

WellFormed == fileExists /\ \A i \in 1..Len(rows) : ~BadRow(i)

HasBadRow == fileExists /\ \E i \in 1..Len(rows) : BadRow(i)

FirstBad == Min({i \in 1..Len(rows) : BadRow(i)})

\* the (x, y) data of the lines of an axes, in plotting order
SeriesXY(ax) == [k \in 1..Len(ax.series) |-> <<ax.series[k].x, ax.series[k].y>>]

(***************************************************************************)
(* C1: for a CSV whose N data rows are all well-formed the load does not   *)
(* fail, and once it has finished each of the five lists has N entries,    *)
(* entry i being the float value of that column's cell in input row i.     *)
(***************************************************************************)
C1_LoadPreservesRows ==
    WellFormed =>
      /\ ~(status = "exit1" /\ ~LoadDone)
      /\ LoadDone =>
           \A c \in ColumnSet :
             /\ Len(data[c]) = Len(rows)
             /\ \A i \in 1..Len(rows) : data[c][i] = FloatOf[rows[i][c]].val

C1_Witness ==
    /\ WellFormed /\ LoadDone /\ Len(rows) >= 2
    /\ rows[1] # rows[2]
    /\ data["precision"] # data["recall"]

(***************************************************************************)
(* C2: when a cell of a required column is missing or does not convert,    *)
(* the error is raised with all five lists of the same length, the number  *)
(* of rows fully loaded before the bad row.                                *)
(***************************************************************************)
C2_ErrorBeforeRowMutation ==
    (status = "exit1" /\ exc \in {"ValueError", "TypeError"}) =>
      \A c \in ColumnSet : Len(data[c]) = idx - 1

(***************************************************************************)
(* C3: when the input file cannot be opened the run ends with an error at  *)
(* the open, no output path is created or modified, nothing is printed.    *)
(***************************************************************************)
C3_MissingInputNoOutput ==
    ~fileExists =>
      /\ status # "exit0"
      /\ status = "running" => pc = 8
      /\ status = "exit1" => exc = "FileNotFoundError"
      /\ \A p \in PathSet : Untouched(p)
      /\ stdout = <<>>
      /\ figs = <<>>

C3_Witness ==
    /\ ~fileExists /\ status = "exit1"
    /\ disk[PathPR].kind = "stale" /\ disk[PathROC].kind = "absent"

(***************************************************************************)
(* C4: the printed lines are always a prefix of "Saved: " + path of job 1, *)
(* 2, 3 in that order; line k is printed only with job k's image written;  *)
(* a job whose write failed has no line; a run without error prints all    *)
(* three.                                                                  *)
(***************************************************************************)
C4_SavedLinesPrefix ==
    /\ Len(stdout) <= Len(Paths)
    /\ \A k \in 1..Len(stdout) : stdout[k] = "Saved: " \o Paths[k] /\ Written(k)
    /\ status = "exit0" => Len(stdout) = Len(Paths)
    /\ \A k \in 1..Len(Paths) : ~Written(k) /\ pc > SaveLine(k) => Len(stdout) < k
    /\ (status = "exit1" /\ exc = "OSError") => Len(stdout) = JobOf(pc) - 1

C4_Witness ==
    /\ status = "exit1" /\ exc = "OSError"
    /\ Len(stdout) = 2
    /\ disk[PathROC].kind = "partial"

(***************************************************************************)
(* C5: stages run in the order load, job 1, job 2, job 3, release: nothing *)
(* of a render job happens before the load has consumed every row, job k+1 *)
(* starts only after job k has written its file and printed its line, and  *)
(* the figures are released only after job 3 has finished.                 *)
(***************************************************************************)
C5_StageOrder ==
    /\ (figs # <<>> \/ stdout # <<>> \/ \E p \in PathSet : ~Untouched(p) \/ LoadDone) =>
         /\ idx = Len(rows)
         /\ \A c \in ColumnSet : Len(data[c]) = Len(rows)
    /\ \A k \in 1..(Len(Paths) - 1) :
         Len(figs) >= k + 1 => Written(k) /\ Len(stdout) >= k
    /\ (figs = <<>> /\ stdout # <<>>) =>
         /\ status = "exit0"
         /\ Len(stdout) = Len(Paths)
         /\ \A k \in 1..Len(Paths) : Written(k)
    /\ status = "exit0" => figs = <<>>

C5_Witness ==
    /\ Len(figs) = 3 /\ Len(stdout) = 2 /\ Len(rows) >= 2
    /\ Code(pc).op = "plot"

(***************************************************************************)
(* C6: when the write of render job k fails the run stops there: no later  *)
(* job is started, the write is not attempted again, no further step is    *)
(* taken, the files of jobs 1..k-1 hold exactly what those jobs wrote and  *)
(* no other path holds a complete image of this run.                       *)
(***************************************************************************)
RenderFailed == status = "exit1" /\ exc = "OSError"

C6_FailedState ==
    RenderFailed =>
      LET k == JobOf(pc)
      IN  /\ pc = SaveLine(k)
          /\ Len(figs) = k
          /\ Len(stdout) = k - 1
          /\ \A j \in 1..(k - 1) : disk[Paths[j]] = Png(Code(SaveLine(j)), figs[j])
          /\ \A j \in k..Len(Paths) : ~Written(j)

C6_RenderFailureStops ==
    /\ []C6_FailedState
    /\ [][status = "running"]_vars
    /\ [][AtOp("savefig") => (status' = "exit1" \/ pc' = NextPc(pc))]_vars

C6_Witness ==
    /\ RenderFailed /\ JobOf(pc) = 2
    /\ Written(1) /\ disk[PathThreshold].kind = "partial" /\ disk[PathROC].kind = "stale"

(***************************************************************************)
(* C7: when a data row cannot be parsed the load aborts at that row: the   *)
(* row is not skipped, no later row is read, no render job is started, no  *)
(* output path is written, nothing is printed, however many rows before it *)
(* were loaded.                                                            *)
(***************************************************************************)
C7_ParseFailureAborts ==
    HasBadRow =>
      /\ status # "exit0"
      /\ ~LoadDone
      /\ idx <= FirstBad
      /\ idx = FirstBad => pc # 10
      /\ \A c \in ColumnSet : Len(data[c]) <= FirstBad
      /\ status = "exit1" => exc \in ParseErrors /\ idx = FirstBad
      /\ figs = <<>>
      /\ stdout = <<>>
      /\ \A p \in PathSet : Untouched(p)

C7_Witness ==
    /\ HasBadRow /\ status = "exit1" /\ idx = 2
    /\ exc = "ValueError" /\ pc = 13

(***************************************************************************)
(* C8: every run terminates, either with exit code 0 after all three       *)
(* images were written and all three lines printed, or with a non-zero     *)
(* exit code at the statement that raised; no exception leaves the script  *)
(* running.                                                                *)
(***************************************************************************)
C8_Outcome ==
    /\ status \in {"running", "exit0", "exit1"}
    /\ status = "exit0" =>
         /\ exc = ""
         /\ \A k \in 1..Len(Paths) : Written(k)
         /\ stdout = [k \in 1..Len(Paths) |-> "Saved: " \o Paths[k]]
    /\ status = "exit1" <=> exc # ""

C8_Terminates == <>(status # "running") /\ []C8_Outcome

C8_Witness ==
    /\ status = "exit0" /\ Len(rows) >= 1

(***************************************************************************)
(* C9: every image written holds exactly the series of its job, with the   *)
(* data of the loaded lists: PR path: (recall, precision); threshold path: *)
(* (threshold, precision), (threshold, recall), (threshold, f1) and one    *)
(* horizontal line at y = 0; ROC path: (fpr, recall); the three paths are  *)
(* distinct.                                                               *)
(***************************************************************************)
C9_ChartPairings ==
    /\ Cardinality(PathSet) = Len(Paths)
    /\ Written(1) =>
         /\ SeriesXY(disk[PathPR].ax) = << <<data["recall"], data["precision"]>> >>
         /\ disk[PathPR].ax.hlines = <<>>
    /\ Written(2) =>
         /\ SeriesXY(disk[PathThreshold].ax) =
              << <<data["threshold"], data["precision"]>>,
                 <<data["threshold"], data["recall"]>>,
                 <<data["threshold"], data["f1"]>> >>
         /\ Len(disk[PathThreshold].ax.hlines) = 1
         /\ disk[PathThreshold].ax.hlines[1].y = 0
    /\ Written(3) =>
         /\ SeriesXY(disk[PathROC].ax) = << <<data["fpr"], data["recall"]>> >>
         /\ disk[PathROC].ax.hlines = <<>>

C9_Witness ==
    /\ \A k \in 1..Len(Paths) : Written(k)
    /\ Len(rows) >= 2
    /\ data["fpr"] # data["recall"]
    /\ data["precision"] # data["recall"]

(***************************************************************************)
(* C10: once the load loop has been left, no step of the render jobs or of *)
(* the release changes any of the five lists.                              *)
(***************************************************************************)
C10_DataReadOnlyAfterLoad == [][LoadDone => data' = data]_vars

C10_Witness ==
    /\ status = "exit0"
    /\ Len(data["threshold"]) >= 2
    /\ data["threshold"] # data["f1"]

====
